---------------------------- MODULE Spec2Model ----------------------------
(***************************************************************************)
(* GC9A01A round display driver (ESPHome external component).              *)
(*                                                                         *)
(* The driver is single threaded: the host calls setup, update, fill and   *)
(* draw_absolute_pixel_internal synchronously, so every entry point is one *)
(* atomic action.  What a call does on the pins and on the SPI bus is      *)
(* recorded, in program order, in the event log `out` of that call.        *)
(*                                                                         *)
(* An event is a record                                                    *)
(*   k    : "spi_setup" | "dc_setup" | "bl_setup" | "dc" | "bl_write" |    *)
(*          "bl_read" | "enable" | "disable" | "write" | "read" | "delay"  *)
(*   v    : the payload (pin level, byte pattern, milliseconds)            *)
(*   n    : how many times the pattern v is transferred back to back       *)
(*   role : "cmd" for an opcode byte, "data" for parameter/pixel bytes     *)
(*   dc, held, rdy : DC pin level, bus ownership and is_ready_ at the      *)
(*          moment the event happens                                       *)
(***************************************************************************)
EXTENDS Integers, Sequences, FiniteSets, TLC

(* ------------------------------ bounds -------------------------------- *)
\* update calls explored that run while the driver is Ready
MaxUpdates == 24
\* largest pixel count handed to write_color_ in the protocol specification
MaxCount == 3
\* the most .xml files the local backup directory holds
MaxFiles == 95
\* the most records the SwitchStore holds
MaxSwitches == 4
\* the most lines of pfsense.list
MaxLines == 3

(* ------------------------- program constants -------------------------- *)
GC9A01A_WIDTH == 240
GC9A01A_HEIGHT == 240
GC9A01A_SWRESET == 1
GC9A01A_SLPOUT == 17
GC9A01A_NORON == 19
GC9A01A_INVON == 33
GC9A01A_DISPON == 41
GC9A01A_CASET == 42
GC9A01A_RASET == 43
GC9A01A_RAMWR == 44
GC9A01A_MADCTL == 54
GC9A01A_COLMOD == 58
GC9A01A_MADCTL_BGR == 8
\* uint8_t test_cmd = 0x9F
TEST_CMD == 159
\* sizeof(buffer) of the self-test read
TEST_READ_LEN == 3
\* if (test_delay_counter == 20)
TEST_DELAY == 20
\* if (this->update_counter_ % 20 == 0)
REPORT_EVERY == 20
\* get_component_state() == 0x03
COMPONENT_STATE_FAILED == 3
\* a state of a component that is not the failed state
COMPONENT_STATE_LOOP == COMPONENT_STATE_FAILED - 1

LOW == 0
HIGH == 1

(* --------------------------- uint32_t values -------------------------- *)
\* A uint32_t is kept as two 16-bit limbs, value = hi * 65536 + lo, so that
\* the counters wrap at 2^32 exactly as in the program.
LIMB == 65536

U32(h, l) == [hi |-> h, lo |-> l]

U32Zero == U32(0, 0)

\* c++ on a uint32_t
Inc32(c) ==
  IF c.lo = LIMB - 1
    THEN U32((c.hi + 1) % LIMB, 0)
    ELSE U32(c.hi, c.lo + 1)

\* c % m for a small m
Mod32(c, m) == (((c.hi % m) * (LIMB % m)) + (c.lo % m)) % m

\* conversion of an int argument to a uint16_t parameter
ToU16(x) == x % 65536

\* conversion of an int to a uint8_t parameter
ToU8(x) == x % 256

(* ------------------------------- colors ------------------------------- *)
Color(r, g, b) == [red |-> r, green |-> g, blue |-> b]

\* bit i of a non-negative integer
Bit(a, i) == (a \div (2 ^ i)) % 2

\* bit i of a | b, at its place
OrBit(a, b, i) == IF Bit(a, i) = 1 \/ Bit(b, i) = 1 THEN 2 ^ i ELSE 0

\* bits lo .. lo + 3 of a | b, at their places
OrNibble(a, b, lo) ==
  (OrBit(a, b, lo) + OrBit(a, b, lo + 1))
  + (OrBit(a, b, lo + 2) + OrBit(a, b, lo + 3))

\* a | b of two uint16_t values
BitOr(a, b) ==
  (OrNibble(a, b, 0) + OrNibble(a, b, 4))
  + (OrNibble(a, b, 8) + OrNibble(a, b, 12))

\* color_to_565_ that shifts the green field by 6 instead of 5
color_to_565_green6(color) ==
  LET red_color == ((color.red * 31) \div 255) % 65536
      green_color == ((color.green * 63) \div 255) % 65536
      blue_color == ((color.blue * 31) \div 255) % 65536
  IN BitOr(BitOr(red_color * 2048, green_color * 64), blue_color) % 65536

color_to_565_(color) ==
  LET red_color == ((color.red * 31) \div 255) % 65536
      green_color == ((color.green * 63) \div 255) % 65536
      blue_color == ((color.blue * 31) \div 255) % 65536
  IN BitOr(BitOr(red_color * 2048, green_color * 32), blue_color) % 65536

(* --------------------- the driver during one call --------------------- *)
\* While a call runs, the driver is the record d: the fields of the object
\* (is_ready_, update_counter_, dc_pin_, reset_pin_, backlight_pin_; a pin
\* field is TRUE iff the pointer is not null), the static locals of update,
\* the levels of the pins it drives (dc, bl), whether it holds the bus
\* (held), whether the byte exchange of the bus fails during this call
\* (fault; write_byte and read_array return nothing, so the driver cannot
\* see it) and the log of what the call has done so far.

\* a; b of the source: statement a has run when statement b starts. The
\* value is b; the test fixes the order in which the two are evaluated.
Then(a, b) == IF a.fault \in BOOLEAN THEN b ELSE b

Emit(d, k, v, n, role) ==
  [d EXCEPT !.log = Append(@, [k |-> k, v |-> v, n |-> n, role |-> role,
                               dc |-> d.dc, held |-> d.held,
                               rdy |-> d.is_ready_,
                               err |-> d.fault /\ k \in {"write", "read"}])]

\* blocking delay(ms)
delay(d, ms) == Emit(d, "delay", <<ms>>, 1, "none")

\* A call of a method of GPIOPin through a null pointer is undefined: the
\* build either traps there (the firmware halts: null_call = "trap") or the
\* call returns and nothing has happened (null_call = "noop").
NullCall(d) ==
  IF d.null_call = "trap" THEN [d EXCEPT !.halted = TRUE] ELSE d

\* this->dc_pin_->setup()
dc_pin_setup(d) ==
  IF d.dc_pin_ THEN Emit(d, "dc_setup", <<>>, 1, "none") ELSE NullCall(d)

\* this->dc_pin_->digital_write(level); with dc_pin_ null it is reached only
\* in a build whose null calls return, since setup makes the first such call
dc_digital_write(d, level) ==
  IF d.dc_pin_
    THEN [Emit(d, "dc", <<level>>, 1, "none") EXCEPT !.dc = level]
    ELSE NullCall(d)

\* this->backlight_pin_->digital_write(level)
bl_digital_write(d, level) ==
  [Emit(d, "bl_write", <<level>>, 1, "none") EXCEPT !.bl = level]

\* this->backlight_pin_->digital_read(): the level is logged only
bl_digital_read(d) == Emit(d, "bl_read", <<d.bl>>, 1, "none")

\* SPIDevice::enable(): acquire the bus
SPIDevice_enable(d) ==
  [Emit(d, "enable", <<>>, 1, "none") EXCEPT !.held = TRUE]

\* SPIDevice::disable(): release the bus
SPIDevice_disable(d) ==
  [Emit(d, "disable", <<>>, 1, "none") EXCEPT !.held = FALSE]

enable_(d) == SPIDevice_enable(d)

\* disable_ that does not call SPIDevice::disable()
disable_keeps_bus(d) == d

disable_(d) == SPIDevice_disable(d)

\* this->write_byte(b); role says what the source sends the byte as
write_byte(d, b, role) == Emit(d, "write", <<ToU8(b)>>, 1, role)

\* this->read_array(buffer, len); resp is what the bus returns
read_array(d, resp, len) == Emit(d, "read", resp, len, "data")

write_command_(d, cmd) ==
  LET d1 == dc_digital_write(d, LOW)
      d2 == enable_(d1)
      d3 == write_byte(d2, cmd, "cmd")
  IN Then(d1, Then(d2, Then(d3,
       disable_(d3))))

\* write_data_ with the two first statements exchanged: the bus is acquired
\* before the DC pin is written
write_data_dc_late(d, data) ==
  LET d1 == enable_(d)
      d2 == dc_digital_write(d1, HIGH)
      d3 == write_byte(d2, data, "data")
  IN Then(d1, Then(d2, Then(d3,
       disable_(d3))))

write_data_(d, data) ==
  LET d1 == dc_digital_write(d, HIGH)
      d2 == enable_(d1)
      d3 == write_byte(d2, data, "data")
  IN Then(d1, Then(d2, Then(d3,
       disable_(d3))))

\* write_data_16_ that sends the low byte first
write_data_16_low_first(d, data) ==
  LET d1 == dc_digital_write(d, HIGH)
      d2 == enable_(d1)
      d3 == write_byte(d2, data % 256, "data")
      d4 == write_byte(d3, data \div 256, "data")
  IN Then(d1, Then(d2, Then(d3, Then(d4,
       disable_(d4)))))

write_data_16_(d, data) ==
  LET d1 == dc_digital_write(d, HIGH)
      d2 == enable_(d1)
      d3 == write_byte(d2, data \div 256, "data")
      d4 == write_byte(d3, data % 256, "data")
  IN Then(d1, Then(d2, Then(d3, Then(d4,
       disable_(d4)))))

\* the loop of write_color_ with the bound i < count - 1
write_color_loop_short(d, color_high, color_low, count) ==
  IF count <= 1 THEN d
  ELSE Emit(d, "write", <<color_high, color_low>>, count - 1, "data")

\* for (i = 0; i < count; i++) { write_byte(color_high); write_byte(color_low); }
\* the count back-to-back transfers of the pair are one event with n = count
write_color_loop(d, color_high, color_low, count) ==
  IF count = 0 THEN d
  ELSE Emit(d, "write", <<color_high, color_low>>, count, "data")

\* write_color_ that returns from inside the loop, without disable_, when
\* the byte exchange fails
write_color_leak(d, color, count) ==
  LET d1 == dc_digital_write(d, HIGH)
      d2 == enable_(d1)
      color_high == ToU8(color \div 256)
      color_low == color % 256
      d3 == write_color_loop(d2, color_high, color_low, count)
  IN Then(d1, Then(d2, Then(d3,
       IF d.fault /\ count > 0 THEN d3 ELSE disable_(d3))))

write_color_(d, color, count) ==
  LET d1 == dc_digital_write(d, HIGH)
      d2 == enable_(d1)
      color_high == ToU8(color \div 256)
      color_low == color % 256
      d3 == write_color_loop(d2, color_high, color_low, count)
  IN Then(d1, Then(d2, Then(d3,
       disable_(d3))))

\* set_addr_window_ that sends the memory-write command before the row
\* address
set_addr_window_ramwr_early(d, x1, y1, x2, y2) ==
  LET d1 == write_command_(d, GC9A01A_CASET)
      d2 == write_data_16_(d1, x1)
      d3 == write_data_16_(d2, x2)
      d4 == write_command_(d3, GC9A01A_RAMWR)
      d5 == write_command_(d4, GC9A01A_RASET)
      d6 == write_data_16_(d5, y1)
  IN Then(d1, Then(d2, Then(d3, Then(d4, Then(d5, Then(d6,
       write_data_16_(d6, y2)))))))

\* set_addr_window_ that sends the row address before the column address
set_addr_window_rows_first(d, x1, y1, x2, y2) ==
  LET d1 == write_command_(d, GC9A01A_RASET)
      d2 == write_data_16_(d1, y1)
      d3 == write_data_16_(d2, y2)
      d4 == write_command_(d3, GC9A01A_CASET)
      d5 == write_data_16_(d4, x1)
      d6 == write_data_16_(d5, x2)
  IN Then(d1, Then(d2, Then(d3, Then(d4, Then(d5, Then(d6,
       write_command_(d6, GC9A01A_RAMWR)))))))

set_addr_window_(d, x1, y1, x2, y2) ==
  LET d1 == write_command_(d, GC9A01A_CASET)
      d2 == write_data_16_(d1, x1)
      d3 == write_data_16_(d2, x2)
      d4 == write_command_(d3, GC9A01A_RASET)
      d5 == write_data_16_(d4, y1)
      d6 == write_data_16_(d5, y2)
  IN Then(d1, Then(d2, Then(d3, Then(d4, Then(d5, Then(d6,
       write_command_(d6, GC9A01A_RAMWR)))))))

\* a width one too large
get_width_internal_plus_1 == GC9A01A_WIDTH + 1

get_width_internal == GC9A01A_WIDTH

get_height_internal == GC9A01A_HEIGHT

\* fill without the test of is_ready_
fill_ungated(d, color) ==
  LET color565 == color_to_565_(color)
      d1 == set_addr_window_(d, 0, 0, ToU16(GC9A01A_WIDTH - 1),
                             ToU16(GC9A01A_HEIGHT - 1))
  IN Then(d1,
       write_color_(d1, color565, GC9A01A_WIDTH * GC9A01A_HEIGHT))

fill(d, color) ==
  IF ~d.is_ready_ THEN d
  ELSE LET color565 == color_to_565_(color)
           d1 == set_addr_window_(d, 0, 0, ToU16(GC9A01A_WIDTH - 1),
                                  ToU16(GC9A01A_HEIGHT - 1))
       IN Then(d1,
            write_color_(d1, color565, GC9A01A_WIDTH * GC9A01A_HEIGHT))

\* the largest of lo and the smallest of v and hi
Clamp(v, lo, hi) == IF v < lo THEN lo ELSE IF v > hi THEN hi ELSE v

\* draw_absolute_pixel_internal that takes x for the row and y for the column
draw_absolute_pixel_transposed(d, x, y, color) ==
  IF x < 0 \/ x >= get_width_internal \/ y < 0 \/ y >= get_height_internal
    THEN d
  ELSE IF ~d.is_ready_ THEN d
  ELSE LET color565 == color_to_565_(color)
           d1 == set_addr_window_(d, ToU16(y), ToU16(x), ToU16(y), ToU16(x))
       IN Then(d1,
            write_data_16_(d1, color565))

\* draw_absolute_pixel_internal that clamps the point into the panel
draw_absolute_pixel_clamped(d, x, y, color) ==
  IF ~d.is_ready_ THEN d
  ELSE LET cx == Clamp(x, 0, get_width_internal - 1)
           cy == Clamp(y, 0, get_height_internal - 1)
           color565 == color_to_565_(color)
           d1 == set_addr_window_(d, ToU16(cx), ToU16(cy), ToU16(cx),
                                  ToU16(cy))
       IN Then(d1,
            write_data_16_(d1, color565))

draw_absolute_pixel_internal(d, x, y, color) ==
  IF x < 0 \/ x >= get_width_internal \/ y < 0 \/ y >= get_height_internal
    THEN d
  ELSE IF ~d.is_ready_ THEN d
  ELSE LET color565 == color_to_565_(color)
           d1 == set_addr_window_(d, ToU16(x), ToU16(y), ToU16(x), ToU16(y))
       IN Then(d1,
            write_data_16_(d1, color565))

(* ----------------------- initialization sequence --------------------- *)
\* The body of init_display_, one entry per write_command_(cmd): the command,
\* the bytes of the write_data_ calls that follow it, and the milliseconds
\* of the delay call that follows it (0: no delay call).
InitScript ==
  <<
     <<GC9A01A_SWRESET, <<>>, 120>>,
     <<GC9A01A_SLPOUT, <<>>, 120>>,
     <<GC9A01A_COLMOD, <<85>>, 0>>,
     <<GC9A01A_MADCTL, <<GC9A01A_MADCTL_BGR>>, 0>>,
     <<239, <<>>, 0>>,
     <<235, <<20>>, 0>>,
     <<254, <<>>, 0>>,
     <<239, <<>>, 0>>,
     <<235, <<20>>, 0>>,
     <<132, <<64>>, 0>>,
     <<133, <<255>>, 0>>,
     <<134, <<255>>, 0>>,
     <<135, <<255>>, 0>>,
     <<136, <<10>>, 0>>,
     <<137, <<33>>, 0>>,
     <<138, <<0>>, 0>>,
     <<139, <<128>>, 0>>,
     <<140, <<1>>, 0>>,
     <<141, <<1>>, 0>>,
     <<142, <<255>>, 0>>,
     <<143, <<255>>, 0>>,
     <<182, <<0, 32>>, 0>>,
     <<54, <<GC9A01A_MADCTL_BGR>>, 0>>,
     <<58, <<5>>, 0>>,
     <<144, <<8, 8, 8, 8>>, 0>>,
     <<189, <<6>>, 0>>,
     <<188, <<0>>, 0>>,
     <<255, <<96, 1, 4>>, 0>>,
     <<195, <<19>>, 0>>,
     <<196, <<19>>, 0>>,
     <<201, <<34>>, 0>>,
     <<190, <<17>>, 0>>,
     <<225, <<16, 14>>, 0>>,
     <<223, <<33, 12, 2>>, 0>>,
     <<240, <<69, 9, 8, 8, 38, 42>>, 0>>,
     <<241, <<67, 112, 114, 54, 55, 111>>, 0>>,
     <<242, <<69, 9, 8, 8, 38, 42>>, 0>>,
     <<243, <<67, 112, 114, 54, 55, 111>>, 0>>,
     <<237, <<27, 11>>, 0>>,
     <<174, <<119>>, 0>>,
     <<205, <<99>>, 0>>,
     <<112, <<7, 7, 4, 14, 15, 9, 7, 8, 3>>, 0>>,
     <<232, <<52>>, 0>>,
     <<98, <<24, 13, 113, 237, 112, 112, 24, 15, 113, 239, 112, 112>>, 0>>,
     <<99, <<24, 17, 113, 241, 112, 112, 24, 19, 113, 243, 112, 112>>, 0>>,
     <<100, <<40, 41, 241, 1, 241, 0, 7>>, 0>>,
     <<102, <<60, 0, 205, 103, 69, 69, 16, 0, 0, 0>>, 0>>,
     <<103, <<0, 60, 0, 0, 0, 1, 84, 16, 50, 152>>, 0>>,
     <<116, <<16, 133, 128, 0, 0, 78, 0>>, 0>>,
     <<152, <<62, 7>>, 0>>,
     <<GC9A01A_INVON, <<>>, 10>>,
     <<GC9A01A_NORON, <<>>, 10>>,
     <<GC9A01A_DISPON, <<>>, 120>>
  >>

RECURSIVE write_params(_, _)
\* write_data_(params[run.i]); write_data_(params[run.i + 1]); ... on run.d
write_params(run, params) ==
  IF run.i > Len(params) THEN run.d
  ELSE write_params([d |-> write_data_(run.d, params[run.i]),
                     i |-> run.i + 1], params)

\* one entry of the script, its parameter bytes sent before its command
RunStep_params_first(d, s) ==
  LET d1 == write_params([d |-> d, i |-> 1], s[2])
      d2 == write_command_(d1, s[1])
  IN Then(d1, Then(d2,
       IF s[3] > 0 THEN delay(d2, s[3]) ELSE d2))

\* one entry of the script
RunStep(d, s) ==
  LET d1 == write_command_(d, s[1])
      d2 == write_params([d |-> d1, i |-> 1], s[2])
  IN Then(d1, Then(d2,
       IF s[3] > 0 THEN delay(d2, s[3]) ELSE d2))

RECURSIVE RunScript(_, _)
\* the entries run.lo .. run.hi of the script, in order, on run.d
RunScript(run, script) ==
  IF run.lo > run.hi THEN run.d
  ELSE IF run.lo = run.hi THEN RunStep(run.d, script[run.lo])
  ELSE LET mid == (run.lo + run.hi) \div 2
           first == RunScript([d |-> run.d, lo |-> run.lo, hi |-> mid], script)
       IN RunScript([d |-> first, lo |-> mid + 1, hi |-> run.hi], script)

\* init_display_ that runs the script only on a driver that is not Ready
init_display_once(d) ==
  IF d.is_ready_ THEN d
  ELSE RunScript([d |-> d, lo |-> 1, hi |-> Len(InitScript)], InitScript)

init_display_(d) ==
  RunScript([d |-> d, lo |-> 1, hi |-> Len(InitScript)], InitScript)

\* Color red_color = Color(255, 0, 0, 0)
red_color == Color(255, 0, 0)

\* setup that sets is_ready_ before it calls init_display_
setup_ready_first(d) ==
  LET d1 == Emit(d, "spi_setup", <<>>, 1, "none")
      d2 == dc_pin_setup(d1)
      d3 == IF d2.backlight_pin_
              THEN bl_digital_write(Emit(d2, "bl_setup", <<>>, 1, "none"),
                                    HIGH)
              ELSE d2
      d4 == [d3 EXCEPT !.is_ready_ = TRUE]
      d5 == init_display_(d4)
  IN Then(d1, Then(d2,
       IF d2.halted THEN d2
       ELSE Then(d3, Then(d4, Then(d5, fill(d5, red_color))))))

setup(d) ==
  LET d1 == Emit(d, "spi_setup", <<>>, 1, "none")
      d2 == dc_pin_setup(d1)
      d3 == IF d2.backlight_pin_
              THEN bl_digital_write(Emit(d2, "bl_setup", <<>>, 1, "none"),
                                    HIGH)
              ELSE d2
      d4 == init_display_(d3)
      d5 == [d4 EXCEPT !.is_ready_ = TRUE]
  IN Then(d1, Then(d2,
       IF d2.halted THEN d2
       ELSE Then(d3, Then(d4, Then(d5, fill(d5, red_color))))))

\* a self-test that takes the driver out of Ready when it reads back zeros
spi_transaction_test_unready(d, resp) ==
  LET d1 == SPIDevice_enable(d)
      d2 == write_byte(d1, TEST_CMD, "cmd")
      d3 == read_array(d2, resp, TEST_READ_LEN)
      d4 == SPIDevice_disable(d3)
  IN Then(d1, Then(d2, Then(d3, Then(d4,
       IF resp = <<0, 0, 0>> THEN [d4 EXCEPT !.is_ready_ = FALSE] ELSE d4))))

\* the "SPI transaction test" of update
spi_transaction_test(d, resp) ==
  LET d1 == SPIDevice_enable(d)
      d2 == write_byte(d1, TEST_CMD, "cmd")
      d3 == read_array(d2, resp, TEST_READ_LEN)
  IN Then(d1, Then(d2, Then(d3,
       SPIDevice_disable(d3))))

\* the "Diagnostic Report" of update
diagnostic_report(d) ==
  IF d.backlight_pin_
    THEN LET d1 == bl_digital_read(d)
             d2 == bl_digital_write(d1, HIGH)
             d3 == delay(d2, 10)
         IN Then(d1, Then(d2, Then(d3,
              bl_digital_read(d3))))
    ELSE d

\* update that sets gpio_diagnostics_done when the self-test has run
update_sets_done(d, component_state, resp) ==
  IF ~d.is_ready_ THEN d
  ELSE IF component_state = COMPONENT_STATE_FAILED THEN d
  ELSE LET c == Inc32(d.test_delay_counter)
           d1 == IF ~d.gpio_diagnostics_done
                   THEN LET dd == [d EXCEPT !.test_delay_counter = c]
                        IN IF c = U32(0, TEST_DELAY)
                             THEN [spi_transaction_test(dd, resp)
                                     EXCEPT !.gpio_diagnostics_done = TRUE]
                             ELSE dd
                   ELSE d
           d2 == [d1 EXCEPT !.update_counter_ = Inc32(@)]
       IN Then(d1, Then(d2,
            IF Mod32(d2.update_counter_, REPORT_EVERY) = 0
              THEN diagnostic_report(d2)
              ELSE d2))

\* update that tests the component state after it has counted the call
update_counts_failed(d, component_state, resp) ==
  IF ~d.is_ready_ THEN d
  ELSE LET d0 == [d EXCEPT !.update_counter_ = Inc32(@)]
       IN IF component_state = COMPONENT_STATE_FAILED THEN d0
          ELSE LET c == Inc32(d.test_delay_counter)
                   d1 == IF ~d.gpio_diagnostics_done
                           THEN LET dd == [d0 EXCEPT !.test_delay_counter = c]
                                IN IF c = U32(0, TEST_DELAY)
                                     THEN spi_transaction_test(dd, resp)
                                     ELSE dd
                           ELSE d0
               IN Then(d1,
                    IF Mod32(d1.update_counter_, REPORT_EVERY) = 0
                      THEN diagnostic_report(d1)
                      ELSE d1)

\* update with the call of do_update_ enabled, which repaints a changed pixel
update_repaints(d, component_state, resp) ==
  IF ~d.is_ready_ THEN d
  ELSE IF component_state = COMPONENT_STATE_FAILED THEN d
  ELSE LET c == Inc32(d.test_delay_counter)
           d1 == IF ~d.gpio_diagnostics_done
                   THEN LET dd == [d EXCEPT !.test_delay_counter = c]
                        IN IF c = U32(0, TEST_DELAY)
                             THEN spi_transaction_test(dd, resp)
                             ELSE dd
                   ELSE d
           d2 == draw_absolute_pixel_internal(d1, 0, 0, red_color)
           d3 == [d2 EXCEPT !.update_counter_ = Inc32(@)]
       IN Then(d1, Then(d2, Then(d3,
            IF Mod32(d3.update_counter_, REPORT_EVERY) = 0
              THEN diagnostic_report(d3)
              ELSE d3)))

\* update that restarts update_counter_ after each report
update_restart(d, component_state, resp) ==
  IF ~d.is_ready_ THEN d
  ELSE IF component_state = COMPONENT_STATE_FAILED THEN d
  ELSE LET c == Inc32(d.test_delay_counter)
           d1 == IF ~d.gpio_diagnostics_done
                   THEN LET dd == [d EXCEPT !.test_delay_counter = c]
                        IN IF c = U32(0, TEST_DELAY)
                             THEN spi_transaction_test(dd, resp)
                             ELSE dd
                   ELSE d
           d2 == [d1 EXCEPT !.update_counter_ = Inc32(@)]
       IN Then(d1, Then(d2,
            IF Mod32(d2.update_counter_, REPORT_EVERY) = 0
              THEN [diagnostic_report(d2) EXCEPT !.update_counter_ = U32Zero]
              ELSE d2))

update(d, component_state, resp) ==
  IF ~d.is_ready_ THEN d
  ELSE IF component_state = COMPONENT_STATE_FAILED THEN d
  ELSE LET c == Inc32(d.test_delay_counter)
           d1 == IF ~d.gpio_diagnostics_done
                   THEN LET dd == [d EXCEPT !.test_delay_counter = c]
                        IN IF c = U32(0, TEST_DELAY)
                             THEN spi_transaction_test(dd, resp)
                             ELSE dd
                   ELSE d
           d2 == [d1 EXCEPT !.update_counter_ = Inc32(@)]
       IN Then(d1, Then(d2,
            IF Mod32(d2.update_counter_, REPORT_EVERY) = 0
              THEN diagnostic_report(d2)
              ELSE d2))

(* ------------------------------- state -------------------------------- *)
VARIABLES
  is_ready_,              \* GC9A01ADisplay::is_ready_
  update_counter_,        \* GC9A01ADisplay::update_counter_ (uint32_t)
  dc_pin_,                \* TRUE iff dc_pin_ != nullptr
  reset_pin_,             \* TRUE iff reset_pin_ != nullptr
  backlight_pin_,         \* TRUE iff backlight_pin_ != nullptr
  gpio_diagnostics_done,  \* static local of update
  test_delay_counter,     \* static local of update (uint32_t)
  component_state,        \* what get_component_state() returns
  dc_level,               \* output level of the DC pin
  bl_level,               \* output level of the backlight pin
  spi_enabled,            \* TRUE while the driver holds the bus
  out,                    \* event log of the last call
  last,                   \* the last call: entry point, arguments, is_ready_
                          \* at entry, whether the bus failed during it
  bus_fault,              \* TRUE while the byte exchange of the bus fails
  calls,                  \* update calls since Init that were made while
                          \* Ready and not failed (that did not return early)
  tests,                  \* self-tests run over the driver's lifetime
  late,                   \* TRUE iff Init was the long-running state
  null_call,              \* what a call through a null pointer does in
                          \* this build: "trap" or "noop"
  halted,                 \* TRUE once the firmware has trapped
  worktree,               \* the git working copy /config of the update
                          \* scripts
  backup_dir,             \* the .xml files of /config/scripts/pfsense/backup,
                          \* each known by its rank in age (1 is the newest)
  second,                 \* the fields of a second GC9A01ADisplay of the
                          \* firmware (the static locals of update are not
                          \* among them: there is one of each)
  switches_,              \* SwitchStore::switches_
  added                   \* the records handed to add_switch since the last
                          \* clear, or since construction

vars == <<is_ready_, update_counter_, backlight_pin_, gpio_diagnostics_done,
          test_delay_counter, component_state, dc_level, bl_level,
          spi_enabled, out, last, bus_fault, calls, tests, late, dc_pin_,
          reset_pin_, null_call, halted, worktree, backup_dir, second,
          switches_, added>>

\* the driver as a call finds it, with an empty log
Self ==
  [is_ready_ |-> is_ready_, update_counter_ |-> update_counter_,
   dc_pin_ |-> dc_pin_, reset_pin_ |-> reset_pin_,
   backlight_pin_ |-> backlight_pin_,
   null_call |-> null_call, halted |-> halted,
   gpio_diagnostics_done |-> gpio_diagnostics_done,
   test_delay_counter |-> test_delay_counter,
   dc |-> dc_level, bl |-> bl_level, held |-> spi_enabled,
   fault |-> bus_fault, log |-> <<>>]

\* the driver as a call leaves it
Return(d) ==
  /\ is_ready_' = d.is_ready_
  /\ update_counter_' = d.update_counter_
  /\ dc_pin_' = d.dc_pin_
  /\ reset_pin_' = d.reset_pin_
  /\ backlight_pin_' = d.backlight_pin_
  /\ halted' = d.halted
  /\ gpio_diagnostics_done' = d.gpio_diagnostics_done
  /\ test_delay_counter' = d.test_delay_counter
  /\ dc_level' = d.dc
  /\ bl_level' = d.bl
  /\ spi_enabled' = d.held
  /\ out' = d.log

Call(op, args) ==
  [op |-> op, args |-> args, fault |-> bus_fault, rdy |-> is_ready_]

(* ------------------------------- inputs ------------------------------- *)
\* points <<x, y>> handed to draw_absolute_pixel_internal (int, int): the
\* corners of the panel, a point inside, one point beyond each edge, and a
\* point whose x is 5 once cut to 16 bits
Points == {<<0, 0>>, <<239, 239>>, <<5, 7>>,
           <<-1, 0>>, <<240, 0>>, <<0, -1>>, <<0, 240>>, <<65541, 7>>}

Colors == {Color(255, 0, 0), Color(18, 52, 86)}

\* the Color whose channels are args[i], args[i + 1], args[i + 2]
ArgColor(args, i) == Color(args[i], args[i + 1], args[i + 2])

\* the three bytes the self-test reads back
Responses == {<<0, 0, 0>>, <<0, 154, 1>>}

\* bytes, words and window coordinates handed to the protocol primitives
Bytes == {0, 44, 159, 255}

Words == {0, 239, 258, 63488, 65535}

WinCoords == {0, 1, 239}

\* the value 2^32 - 2 of a uint32_t counter
LateCount == U32(LIMB - 1, LIMB - 2)

(* -------------------------------- Init -------------------------------- *)
\* what does not depend on how long the driver has run
Boot ==
  /\ backlight_pin_ \in BOOLEAN
  /\ halted = FALSE
  /\ component_state = COMPONENT_STATE_LOOP
  /\ spi_enabled = FALSE
  /\ bus_fault = FALSE
  /\ calls = 0

\* the configuration binds the two pins the driver needs, so that no call
\* goes through a null pointer
Bound ==
  /\ dc_pin_ = TRUE
  /\ reset_pin_ = TRUE
  /\ null_call = "trap"

\* the fields and pins of a driver that has not run yet
Fresh ==
  /\ is_ready_ = FALSE
  /\ update_counter_ = U32Zero
  /\ gpio_diagnostics_done = FALSE
  /\ test_delay_counter = U32Zero
  /\ dc_level = LOW
  /\ bl_level = LOW
  /\ out = <<>>
  /\ last = [op |-> "none", args |-> <<>>, fault |-> FALSE, rdy |-> FALSE]
  /\ tests = 0
  /\ late = FALSE

\* a working copy with nothing to commit
CleanTree ==
  [modified |-> FALSE, staged |-> FALSE, untracked |-> FALSE,
   unpushed |-> FALSE]

\* a second driver after construction; it is configured like the first,
\* and calls and tests count for it what the variables calls and tests
\* count for the first
SecondConstructed ==
  [is_ready_ |-> FALSE, update_counter_ |-> U32Zero, dc |-> LOW, bl |-> LOW,
   calls |-> 0, tests |-> 0]

\* the other components after construction
PeersConstructed ==
  /\ second = SecondConstructed
  /\ switches_ = <<>>
  /\ added = <<>>

\* the shell scripts have not run: the driver does not touch their files
HostIdle ==
  /\ worktree = CleanTree
  /\ backup_dir = {}

\* the driver after construction
Init ==
  /\ Boot
  /\ PeersConstructed
  /\ Bound
  /\ Fresh
  /\ HostIdle

\* what a call through a null pointer can do
NullCalls == {"trap", "noop"}

\* The driver after construction under any configuration: set_dc_pin and
\* set_reset_pin have been called or not.  What a null call does matters
\* only where one is made, that is with dc_pin_ null.
InitConfig ==
  /\ Boot
  /\ PeersConstructed
  /\ Fresh
  /\ HostIdle
  /\ dc_pin_ \in BOOLEAN
  /\ reset_pin_ \in BOOLEAN
  /\ null_call \in (IF dc_pin_ THEN {"trap"} ELSE NullCalls)

\* The same driver after setup and 2^32 - 2 update calls that did not return
\* early: the last of them left both counters at LateCount and ran neither
\* the self-test nor a report; the self-test has run once, in update call 20;
\* the DC pin is high since the test fill of setup.
InitLate ==
  /\ Boot
  /\ PeersConstructed
  /\ Bound
  /\ HostIdle
  /\ is_ready_ = TRUE
  /\ update_counter_ = LateCount
  /\ gpio_diagnostics_done = FALSE
  /\ test_delay_counter = LateCount
  /\ dc_level = HIGH
  /\ bl_level = IF backlight_pin_ THEN HIGH ELSE LOW
  /\ out = <<>>
  /\ last = [op |-> "update", args |-> <<>>, fault |-> FALSE, rdy |-> TRUE]
  /\ tests = 1
  /\ late = TRUE

(* ------------------------------ actions ------------------------------- *)
Ghosts == <<calls, tests, late>>

Env == <<component_state, bus_fault>>

Build == <<null_call>>

\* the other components of the firmware
Peers == <<second, switches_, added>>

\* the files of the host that the shell scripts work on
Host == <<worktree, backup_dir>>

Setup ==
  /\ ~halted
  /\ Return(setup(Self))
  /\ last' = Call("setup", <<>>)
  /\ UNCHANGED <<Env, Ghosts, Build, Peers, Host>>

\* the self-test ran in the call whose log is log
SelfTestIn(log) == \E i \in 1..Len(log) : log[i].k = "read"

\* an update call made now gets past the two early returns of update
Polled == is_ready_ /\ component_state # COMPONENT_STATE_FAILED

Update(resp) ==
  /\ ~halted
  /\ Polled => calls < MaxUpdates
  /\ LET d == update(Self, component_state, resp)
     IN /\ Return(d)
        /\ tests' = IF SelfTestIn(d.log) THEN tests + 1 ELSE tests
  /\ last' = Call("update", <<>>)
  /\ calls' = IF Polled THEN calls + 1 ELSE calls
  /\ UNCHANGED <<Env, late, Build, Peers, Host>>

Fill(color) ==
  /\ ~halted
  /\ Return(fill(Self, color))
  /\ last' = Call("fill", <<color.red, color.green, color.blue>>)
  /\ UNCHANGED <<Env, Ghosts, Build, Peers, Host>>

Draw(x, y, color) ==
  /\ ~halted
  /\ Return(draw_absolute_pixel_internal(Self, x, y, color))
  /\ last' = Call("draw", <<x, y, color.red, color.green, color.blue>>)
  /\ UNCHANGED <<Env, Ghosts, Build, Peers, Host>>

Driver == <<is_ready_, update_counter_, dc_pin_, reset_pin_,
            backlight_pin_, gpio_diagnostics_done, test_delay_counter,
            dc_level, bl_level, spi_enabled, halted>>

\* the host marks the component as failed
MarkFailed ==
  /\ component_state # COMPONENT_STATE_FAILED
  /\ component_state' = COMPONENT_STATE_FAILED
  /\ UNCHANGED <<Driver, out, last, bus_fault, Ghosts, Build, Peers, Host>>

\* the byte exchange of the bus starts to fail, or works again
BusFault ==
  /\ bus_fault' = ~bus_fault
  /\ UNCHANGED <<Driver, out, last, component_state, Ghosts, Build, Peers, Host>>

Next ==
  \/ Setup
  \/ \E resp \in Responses : Update(resp)
  \/ \E color \in Colors : Fill(color)
  \/ \E p \in Points, color \in Colors : Draw(p[1], p[2], color)
  \/ MarkFailed
  \/ BusFault

Spec == Init /\ [][Next]_vars

\* the driver from update call 2^32 - 2 on
SpecLate == InitLate /\ [][Next]_vars

\* the driver from construction on, or from update call 2^32 - 2 on
SpecAll == (Init \/ InitLate) /\ [][Next]_vars

\* the setup call the host makes, once, before it polls the driver
FirstSetup ==
  /\ ~is_ready_
  /\ Setup

NextPolled ==
  \/ FirstSetup
  \/ \E resp \in Responses : Update(resp)
  \/ MarkFailed
  \/ BusFault

\* the driver as the host runs it: setup once, then update calls
SpecPolled == Init /\ [][NextPolled]_vars

(* --------------------------- two instances --------------------------- *)
\* the second driver as a call finds it: its own fields, and the static
\* locals of update, which the two instances share
Self2 ==
  [Self EXCEPT !.is_ready_ = second.is_ready_,
               !.update_counter_ = second.update_counter_,
               !.dc = second.dc, !.bl = second.bl]

\* the second driver as a call leaves it
Return2(d, polled) ==
  /\ second' = [is_ready_ |-> d.is_ready_,
                update_counter_ |-> d.update_counter_,
                dc |-> d.dc, bl |-> d.bl,
                calls |-> IF polled THEN second.calls + 1 ELSE second.calls,
                tests |-> IF polled /\ SelfTestIn(d.log)
                            THEN second.tests + 1 ELSE second.tests]
  /\ gpio_diagnostics_done' = d.gpio_diagnostics_done
  /\ test_delay_counter' = d.test_delay_counter
  /\ spi_enabled' = d.held
  /\ halted' = d.halted
  /\ out' = d.log
  /\ UNCHANGED <<is_ready_, update_counter_, dc_pin_, reset_pin_,
                 backlight_pin_, dc_level, bl_level>>

\* the setup call the host makes on the second driver
FirstSetup2 ==
  /\ ~halted
  /\ ~second.is_ready_
  /\ Return2(setup(Self2), FALSE)
  /\ last' = [op |-> "setup", args |-> <<2>>, fault |-> bus_fault,
              rdy |-> second.is_ready_]
  /\ UNCHANGED <<Env, Ghosts, Build, Host, switches_, added>>

\* an update call on the second driver
Update2(resp) ==
  /\ ~halted
  /\ LET polled == second.is_ready_
                     /\ component_state # COMPONENT_STATE_FAILED
     IN /\ polled => second.calls < MaxUpdates
        /\ Return2(update(Self2, component_state, resp), polled)
  /\ last' = [op |-> "update", args |-> <<2>>, fault |-> bus_fault,
              rdy |-> second.is_ready_]
  /\ UNCHANGED <<Env, Ghosts, Build, Host, switches_, added>>

NextTwo ==
  \/ FirstSetup
  \/ \E resp \in Responses : Update(resp)
  \/ FirstSetup2
  \/ \E resp \in Responses : Update2(resp)

\* two drivers in one firmware, each set up once and then polled
SpecTwo == Init /\ [][NextTwo]_vars

\* The level of the backlight pin goes low without the driver writing it
\* (the report of update reads the pin back and has a branch for finding it
\* low).
BacklightOff ==
  /\ backlight_pin_ /\ bl_level = HIGH
  /\ bl_level' = LOW
  /\ UNCHANGED <<is_ready_, update_counter_, dc_pin_, reset_pin_,
                 backlight_pin_, gpio_diagnostics_done, test_delay_counter,
                 dc_level, spi_enabled, halted, out, last, Env, Ghosts,
                 Build, Peers, Host>>

NextBacklight ==
  \/ Next
  \/ BacklightOff

\* the driver from construction on, with a backlight that can go low
SpecBacklight == Init /\ [][NextBacklight]_vars

(* --------------------------- the shared bus --------------------------- *)
\* Another device of the bus makes an exchange.  The host calls the
\* components one after the other from one loop, so this happens between
\* two calls of the driver; the other device does not wait for the bus.
OtherExchange ==
  /\ ~halted
  /\ last' = Call("other_device", <<>>)
  /\ out' = <<>>
  /\ UNCHANGED <<Driver, Env, Ghosts, Build, Peers, Host>>

NextShared ==
  \/ Next
  \/ OtherExchange

\* the driver from construction on, on a bus it shares
SpecShared == Init /\ [][NextShared]_vars

(* ------------------------ the color converter ------------------------ *)
\* the values of a uint8_t channel of Color
Channel == 0..255

Corner == {0, 128, 255}

\* the colors handed to color_to_565_: every value of each channel, with
\* the two other channels at 0, 128 or 255
ColorInputs ==
  {<<r, g, b>> : r \in Channel, g \in Corner, b \in Corner}
    \cup {<<r, g, b>> : r \in Corner, g \in Channel, b \in Corner}
    \cup {<<r, g, b>> : r \in Corner, g \in Corner, b \in Channel}

\* a call of color_to_565_ with one of the colors is about to be made
InitColor ==
  /\ Boot
  /\ PeersConstructed
  /\ Bound
  /\ HostIdle
  /\ backlight_pin_ = TRUE
  /\ is_ready_ = FALSE
  /\ update_counter_ = U32Zero
  /\ gpio_diagnostics_done = FALSE
  /\ test_delay_counter = U32Zero
  /\ dc_level = LOW
  /\ bl_level = LOW
  /\ out = <<>>
  /\ \E c \in ColorInputs :
       last = [op |-> "color_to_565_", args |-> c, fault |-> FALSE,
               rdy |-> FALSE]
  /\ tests = 0
  /\ late = FALSE

\* the call returns; the value returned is the only entry of the log
ColorTo565 ==
  /\ last.op = "color_to_565_" /\ out = <<>>
  /\ out' = Emit(Self, "return",
                 <<color_to_565_(ArgColor(last.args, 1))>>, 1, "none").log
  /\ UNCHANGED <<Driver, last, Env, Ghosts, Build, Peers, Host>>

SpecColor == InitColor /\ [][ColorTo565]_vars

\* the driver from construction on, under any configuration of its pins
SpecConfig == InitConfig /\ [][Next]_vars

(* ------------------- the protocol primitives alone -------------------- *)
\* The protected primitives are called by setup (not Ready), fill and
\* draw_absolute_pixel_internal (Ready), with the DC pin at either level and
\* the bus released.
InitProto ==
  /\ Boot
  /\ PeersConstructed
  /\ Bound
  /\ HostIdle
  /\ is_ready_ \in BOOLEAN
  /\ update_counter_ = U32Zero
  /\ gpio_diagnostics_done = FALSE
  /\ test_delay_counter = U32Zero
  /\ dc_level \in {LOW, HIGH}
  /\ bl_level = LOW
  /\ out = <<>>
  /\ last = [op |-> "none", args |-> <<>>, fault |-> FALSE, rdy |-> is_ready_]
  /\ tests = 0
  /\ late = FALSE

WriteCommand(cmd) ==
  /\ ~halted
  /\ Return(write_command_(Self, cmd))
  /\ last' = Call("write_command_", <<cmd>>)
  /\ UNCHANGED <<Env, Ghosts, Build, Peers, Host>>

WriteData(data) ==
  /\ ~halted
  /\ Return(write_data_(Self, data))
  /\ last' = Call("write_data_", <<data>>)
  /\ UNCHANGED <<Env, Ghosts, Build, Peers, Host>>

WriteData16(data) ==
  /\ ~halted
  /\ Return(write_data_16_(Self, data))
  /\ last' = Call("write_data_16_", <<data>>)
  /\ UNCHANGED <<Env, Ghosts, Build, Peers, Host>>

WriteColor(color, count) ==
  /\ ~halted
  /\ Return(write_color_(Self, color, count))
  /\ last' = Call("write_color_", <<color, count>>)
  /\ UNCHANGED <<Env, Ghosts, Build, Peers, Host>>

SetAddrWindow(x1, y1, x2, y2) ==
  /\ ~halted
  /\ Return(set_addr_window_(Self, x1, y1, x2, y2))
  /\ last' = Call("set_addr_window_", <<x1, y1, x2, y2>>)
  /\ UNCHANGED <<Env, Ghosts, Build, Peers, Host>>

InitDisplay ==
  /\ ~halted
  /\ Return(init_display_(Self))
  /\ last' = Call("init_display_", <<>>)
  /\ UNCHANGED <<Env, Ghosts, Build, Peers, Host>>

NextProto ==
  \/ InitDisplay
  \/ \E cmd \in Bytes : WriteCommand(cmd)
  \/ \E data \in Bytes : WriteData(data)
  \/ \E data \in Words : WriteData16(data)
  \/ \E color \in Words, count \in 0..MaxCount : WriteColor(color, count)
  \/ \E x1 \in WinCoords, y1 \in WinCoords, x2 \in WinCoords,
        y2 \in WinCoords :
       x1 <= x2 /\ y1 <= y2 /\ SetAddrWindow(x1, y1, x2, y2)
  \/ BusFault

SpecProto == InitProto /\ [][NextProto]_vars

(* ---------------------- the git update scripts ------------------------ *)
\* what git status --porcelain lists: changes of tracked files, staged or
\* not, and untracked files
Changed(wt) == wt.modified \/ wt.staged \/ wt.untracked

\* a run of a script on the working copy wt: the git commands executed so
\* far, and whether the script has ended
Shell(wt) == [wt |-> wt, log |-> <<>>, ended |-> FALSE]

\* A command of a script, which leaves the working copy as wt.  Every script
\* runs under set -e: a command that fails ends it.
Command(sh, cmd, ok, wt) ==
  IF sh.ended
    THEN sh
    ELSE [wt |-> wt,
          log |-> Append(sh.log, [k |-> cmd, ok |-> ok,
                                  changes |-> Changed(sh.wt)]),
          ended |-> ~ok]

\* exit 0
exit_0(sh) == [sh EXCEPT !.ended = TRUE]

\* echo ... >> "$LOG": /config/logs/git.log lies in the working copy and is
\* a change of it unless it is ignored
write_log(sh, log_tracked) ==
  IF sh.ended \/ ~log_tracked THEN sh ELSE [sh EXCEPT !.wt.modified = TRUE]

\* /config/scripts/make_fake_secrets.sh, when it is there: it rewrites
\* fake_secrets.yaml, with new content or with the same
make_fake_secrets(sh, secrets) ==
  IF sh.ended \/ secrets # "changes" THEN sh
  ELSE [sh EXCEPT !.wt.modified = TRUE]

\* git add .
git_add(sh) ==
  Command(sh, "git add", TRUE,
          [sh.wt EXCEPT !.staged = Changed(sh.wt), !.modified = FALSE,
                        !.untracked = FALSE])

\* git commit -m "$MSG": fails with nothing staged
git_commit(sh) ==
  IF sh.wt.staged
    THEN Command(sh, "git commit", TRUE,
                 [sh.wt EXCEPT !.staged = FALSE, !.unpushed = TRUE])
    ELSE Command(sh, "git commit", FALSE, sh.wt)

\* git push: fails when the remote cannot be reached
git_push(sh, remote) ==
  IF remote
    THEN Command(sh, "git push", TRUE, [sh.wt EXCEPT !.unpushed = FALSE])
    ELSE Command(sh, "git push", FALSE, sh.wt)

\* git add . / git commit / git push, the tail of every script
commit_and_push(sh, log_tracked, remote) ==
  LET s1 == git_add(write_log(sh, log_tracked))
      s2 == git_commit(write_log(s1, log_tracked))
  IN git_push(write_log(s2, log_tracked), remote)

\* part_000: the check is git diff --quiet, which compares the tracked
\* files with the index
git_update_part_000(sh, remote) ==
  IF ~sh.wt.modified
    THEN exit_0(sh)
    ELSE commit_and_push(sh, FALSE, remote)

\* part_001: the check is commented out
git_update_part_001(sh, remote) == commit_and_push(sh, FALSE, remote)

\* scripts/git_update_ad1000.sh: the check is git status --porcelain, made
\* after the log has been written and make_fake_secrets.sh has run
git_update_ad1000(sh, log_tracked, secrets, remote) ==
  LET s1 == write_log(sh, log_tracked)
      s2 == make_fake_secrets(s1, secrets)
  IN IF ~Changed(s2.wt)
       THEN exit_0(s2)
       ELSE commit_and_push(s2, log_tracked, remote)

\* part_006: git_update_ad1000.sh preceded by rsync --dry-run, which copies
\* nothing
git_update_part_006(sh, log_tracked, secrets, remote) ==
  git_update_ad1000(sh, log_tracked, secrets, remote)

Scripts == {"part_000", "part_001", "git_update_ad1000.sh", "part_006"}

\* what make_fake_secrets.sh does
Secrets == {"absent", "same", "changes"}

git_update(script, sh, log_tracked, secrets, remote) ==
  CASE script = "part_000" -> git_update_part_000(sh, remote)
    [] script = "part_001" -> git_update_part_001(sh, remote)
    [] script = "git_update_ad1000.sh" ->
         git_update_ad1000(sh, log_tracked, secrets, remote)
    [] script = "part_006" ->
         git_update_part_006(sh, log_tracked, secrets, remote)

\* the scripts have not run; the working copy is clean and pushed
InitGit ==
  /\ Boot
  /\ PeersConstructed
  /\ Bound
  /\ Fresh
  /\ backlight_pin_ = FALSE
  /\ worktree = CleanTree
  /\ backup_dir = {}

\* one run of a script
GitUpdate(script, log_tracked, secrets, remote) ==
  /\ LET sh == git_update(script, Shell(worktree), log_tracked, secrets,
                          remote)
     IN /\ worktree' = sh.wt
        /\ out' = sh.log
  /\ last' = [op |-> script,
              args |-> <<Changed(worktree), log_tracked, secrets, remote>>,
              fault |-> FALSE, rdy |-> FALSE]
  /\ UNCHANGED <<Driver, Env, Ghosts, Build, Peers, backup_dir>>

\* a tracked file of /config is edited
EditFile ==
  /\ worktree' = [worktree EXCEPT !.modified = TRUE]
  /\ last' = [op |-> "edit", args |-> <<>>, fault |-> FALSE, rdy |-> FALSE]
  /\ out' = <<>>
  /\ UNCHANGED <<Driver, Env, Ghosts, Build, Peers, backup_dir>>

\* a change of /config is staged by hand
StageFile ==
  /\ Changed(worktree)
  /\ worktree' = [worktree EXCEPT !.staged = TRUE, !.modified = FALSE,
                                  !.untracked = FALSE]
  /\ last' = [op |-> "stage", args |-> <<>>, fault |-> FALSE, rdy |-> FALSE]
  /\ out' = <<>>
  /\ UNCHANGED <<Driver, Env, Ghosts, Build, Peers, backup_dir>>

\* a file is created in /config
NewFile ==
  /\ worktree' = [worktree EXCEPT !.untracked = TRUE]
  /\ last' = [op |-> "create", args |-> <<>>, fault |-> FALSE, rdy |-> FALSE]
  /\ out' = <<>>
  /\ UNCHANGED <<Driver, Env, Ghosts, Build, Peers, backup_dir>>

NextGit ==
  \/ \E script \in Scripts, log_tracked \in BOOLEAN, secrets \in Secrets,
        remote \in BOOLEAN :
       GitUpdate(script, log_tracked, secrets, remote)
  \/ EditFile
  \/ StageFile
  \/ NewFile

SpecGit == InitGit /\ [][NextGit]_vars

\* a script without set -e goes on after a command that has failed
resume(sh) == [sh EXCEPT !.ended = FALSE]

\* part_005, a sh script without set -e: the log is written, then
\* make_fake_secrets.sh, git add ., git status >> git.log, git commit and
\* git push origin main run one after the other, whatever each returns
git_update_part_005(sh, log_tracked, secrets, remote) ==
  LET s0 == make_fake_secrets(write_log(sh, log_tracked), secrets)
      s1 == resume(git_add(s0))
      s2 == resume(git_commit(write_log(s1, log_tracked)))
  IN resume(git_push(s2, remote))

SyncScripts == Scripts \cup {"part_005"}

git_sync(script, sh, log_tracked, secrets, remote) ==
  IF script = "part_005"
    THEN git_update_part_005(sh, log_tracked, secrets, remote)
    ELSE git_update(script, sh, log_tracked, secrets, remote)

\* one run of a git-sync script
GitSync(script, log_tracked, secrets, remote) ==
  /\ LET sh == git_sync(script, Shell(worktree), log_tracked, secrets,
                        remote)
     IN /\ worktree' = sh.wt
        /\ out' = sh.log
  /\ last' = [op |-> script,
              args |-> <<Changed(worktree), log_tracked, secrets, remote>>,
              fault |-> FALSE, rdy |-> FALSE]
  /\ UNCHANGED <<Driver, Env, Ghosts, Build, Peers, backup_dir>>

NextSync ==
  \/ \E script \in SyncScripts, log_tracked \in BOOLEAN,
        secrets \in Secrets, remote \in BOOLEAN :
       GitSync(script, log_tracked, secrets, remote)
  \/ EditFile
  \/ StageFile
  \/ NewFile

SpecSync == InitGit /\ [][NextSync]_vars

(* --------------------- the pfSense backup script ---------------------- *)
\* if [ "$count" -gt N ] of part_003
CLEANUP_LIMIT_part_003 == 30

\* if [ "$count" -gt N ] of scripts/pfsense/backup.sh
CLEANUP_LIMIT_backup == 90

\* remove=$((count - N)), the same in both scripts
CLEANUP_KEEP == 90

BackupScripts == {"part_003", "backup.sh"}

CleanupLimit(script) ==
  IF script = "part_003" THEN CLEANUP_LIMIT_part_003 ELSE CLEANUP_LIMIT_backup

\* ls -1t "$backup_dir"/*.xml: the files, the newest first
ls_1t(dir) ==
  [i \in 1..Cardinality(dir) |->
     CHOOSE f \in dir : Cardinality({g \in dir : g < f}) = i - 1]

\* tail -n "$n": the last n lines; tail takes -n -5 for -n 5
tail_n(lines, n) ==
  LET k == IF n < 0 THEN 0 - n ELSE n
      first == IF k >= Len(lines) THEN 1 ELSE Len(lines) - k + 1
  IN SubSeq(lines, first, Len(lines))

\* the files the cleanup removes: none up to the limit, else the last
\* count - 90 lines of the listing
cleanup(script, dir) ==
  LET count == Cardinality(dir)
  IN IF count > CleanupLimit(script)
       THEN tail_n(ls_1t(dir), count - CLEANUP_KEEP)
       ELSE <<>>

\* the elements of a sequence
Range(seq) == {seq[i] : i \in 1..Len(seq)}

\* the backup directory holds any number of files before the script runs
InitBackup ==
  /\ Boot
  /\ PeersConstructed
  /\ Bound
  /\ Fresh
  /\ backlight_pin_ = FALSE
  /\ worktree = CleanTree
  /\ backup_dir \in {1..n : n \in 0..MaxFiles}

\* pfsense-backup.sh copies the config.xml of one firewall into the
\* directory: it is the newest file
FetchBackup ==
  /\ Cardinality(backup_dir) < MaxFiles
  /\ backup_dir' = {1} \cup {f + 1 : f \in backup_dir}
  /\ last' = [op |-> "pfsense-backup.sh", args |-> <<>>, fault |-> FALSE,
              rdy |-> FALSE]
  /\ out' = <<>>
  /\ UNCHANGED <<Driver, Env, Ghosts, Build, Peers, worktree>>

\* the local cleanup step of a script; the log lists the files removed
Cleanup(script) ==
  /\ LET removed == cleanup(script, backup_dir)
     IN /\ backup_dir' = backup_dir \ Range(removed)
        /\ out' = [i \in 1..Len(removed) |-> [k |-> "rm", v |-> removed[i]]]
  /\ last' = [op |-> script, args |-> <<Cardinality(backup_dir)>>,
              fault |-> FALSE, rdy |-> FALSE]
  /\ UNCHANGED <<Driver, Env, Ghosts, Build, Peers, worktree>>

\* the share is mounted: mv "$backup_dir"/*.xml /BackupConfigs
MoveToShare ==
  /\ backup_dir # {}
  /\ backup_dir' = {}
  /\ last' = [op |-> "mv", args |-> <<>>, fault |-> FALSE, rdy |-> FALSE]
  /\ out' = <<>>
  /\ UNCHANGED <<Driver, Env, Ghosts, Build, Peers, worktree>>

NextBackup ==
  \/ FetchBackup
  \/ \E script \in BackupScripts : Cleanup(script)
  \/ MoveToShare

SpecBackup == InitBackup /\ [][NextBackup]_vars

(* ----------------------- what the bus sees ---------------------------- *)
IsBus(e) == e.k \in {"enable", "disable", "write", "read"}

\* The bus traffic of a log: its bus events in order, each reduced to
\* <<kind, byte pattern, repetitions, DC level during the event>>.
Wire(log) ==
  LET bus == SelectSeq(log, IsBus)
  IN [i \in 1..Len(bus) |-> <<bus[i].k, bus[i].v, bus[i].n, bus[i].dc>>]

\* one bracket with the DC pin at level: acquire, the transfers, release
Bracket(level, transfers) ==
  <<<<"enable", <<>>, 1, level>>>> \o transfers
    \o <<<<"disable", <<>>, 1, level>>>>

\* a command byte: one byte with DC low
CmdBracket(b) == Bracket(LOW, <<<<"write", <<b>>, 1, LOW>>>>)

\* a 16-bit data word: high byte, then low byte, with DC high
WordBracket(w) ==
  Bracket(HIGH, <<<<"write", <<w \div 256>>, 1, HIGH>>,
                  <<"write", <<w % 256>>, 1, HIGH>>>>)

\* a burst: count times (high byte, low byte) with DC high
BurstBracket(w, count) ==
  Bracket(HIGH, <<<<"write", <<w \div 256, w % 256>>, count, HIGH>>>>)

\* the address window (x1, y1, x2, y2)
WindowWire(x1, y1, x2, y2) ==
  CmdBracket(42) \o WordBracket(x1) \o WordBracket(x2)
    \o CmdBracket(43) \o WordBracket(y1) \o WordBracket(y2)
    \o CmdBracket(44)

\* the point of a draw call lies outside the panel
OutOfBounds(x, y) == x < 0 \/ x >= 240 \/ y < 0 \/ y >= 240

(* ------------------ the loop over the firewall list ------------------- *)
\* a line of pfsense.list: a comment (it starts with '#'), an empty line or
\* "ip,name,pass"
CommentLine == [k |-> "#", ip |-> "", name |-> "", pass |-> ""]
EmptyLine == [k |-> "", ip |-> "", name |-> "", pass |-> ""]
FirewallLines ==
  {[k |-> "entry", ip |-> "10.0.0.1", name |-> "fw1", pass |-> "pw1"],
   [k |-> "entry", ip |-> "10.0.0.2", name |-> "fw2", pass |-> "pw2"]}
Lines == {CommentLine, EmptyLine} \cup FirewallLines

\* the lists of at most n lines
RECURSIVE ListsUpTo(_)
ListsUpTo(n) ==
  IF n = 0 THEN {<<>>}
  ELSE LET shorter == ListsUpTo(n - 1)
       IN shorter \cup {Append(l, x) : l \in {m \in shorter : Len(m) = n - 1},
                                       x \in Lines}

\* /config/scripts/pfsense/pfsense-backup.sh $1 $2 $3 $datum
pfsense_backup(ip, name, pass) ==
  [k |-> "pfsense-backup.sh", v |-> <<ip, name, pass>>]

\* the loop of part_003 from line i of the list on: a comment or an empty
\* line is skipped with continue, any other line is split at the commas
\* and handed to pfsense-backup.sh when $ip and $name are not empty
RECURSIVE Hauptschleife(_, _)
Hauptschleife(list, i) ==
  IF i > Len(list) THEN <<>>
  ELSE LET line == list[i]
           rest == Hauptschleife(list, i + 1)
       IN IF line.k \in {"#", ""} THEN rest
          ELSE IF line.ip # "" /\ line.name # ""
               THEN <<pfsense_backup(line.ip, line.name, line.pass)>> \o rest
               ELSE rest

\* the loop of backup.sh and of "backup working.sh" from line i of the
\* list on: zeile is assigned on every line that is not a comment and keeps
\* its value on a comment; the positional parameters are set from zeile and
\* pfsense-backup.sh runs whenever zeile is not empty
RECURSIVE read_each_line(_, _, _)
read_each_line(list, i, zeile) ==
  IF i > Len(list) THEN <<>>
  ELSE LET line == list[i]
           z == IF line.k = "#" THEN zeile ELSE line
           rest == read_each_line(list, i + 1, z)
       IN IF z.k # ""
          THEN <<pfsense_backup(z.ip, z.name, z.pass)>> \o rest
          ELSE rest

ListScripts == {"part_003", "backup.sh", "backup working.sh"}

\* the invocations of pfsense-backup.sh of one run of script; zeile is
\* unset when the loop starts
backup_loop(script, list) ==
  IF script = "part_003" THEN Hauptschleife(list, 1)
  ELSE read_each_line(list, 1, EmptyLine)

\* one run of a backup script over the firewall list
ReadList(script, list) ==
  /\ last' = [op |-> script, args |-> <<list>>, fault |-> FALSE,
              rdy |-> FALSE]
  /\ out' = backup_loop(script, list)
  /\ UNCHANGED <<Driver, Env, Ghosts, Build, Peers, Host>>

NextList == \E script \in ListScripts, list \in ListsUpTo(MaxLines) :
              ReadList(script, list)

SpecList == Init /\ [][NextList]_vars

(* --------------------------- the SwitchStore -------------------------- *)
\* the records handed to add_switch; of the eleven strings of a SwitchInfo
\* two are told apart
SwitchInfos ==
  {[entity_id |-> "switch.licht", state |-> "on"],
   [entity_id |-> "switch.steckdose", state |-> "off"]}

\* add_switch that puts the record in front
add_switch_front(sw, info) == <<info>> \o sw

\* switches_.push_back(info)
add_switch(sw, info) == Append(sw, info)

\* switches_.clear()
clear(sw) == <<>>

\* return switches_.size()
count(sw) == Len(sw)

\* return switches_
get_switches(sw) == sw

\* return switches_[index], for 0 <= index < size; the vector counts from 0
get(sw, index) == sw[index + 1]

\* return this->switches_
get_all(sw) == sw

\* a call on the store: what it was called with and what it returned
StoreCall(op, args, returned) ==
  /\ last' = [op |-> op, args |-> args, fault |-> FALSE, rdy |-> FALSE]
  /\ out' = returned
  /\ UNCHANGED <<Driver, Env, Ghosts, Build, Host, second>>

AddSwitch(info) ==
  /\ Len(switches_) < MaxSwitches
  /\ switches_' = add_switch(switches_, info)
  /\ added' = Append(added, info)
  /\ StoreCall("add_switch", <<info>>, <<>>)

Clear ==
  /\ switches_' = clear(switches_)
  /\ added' = <<>>
  /\ StoreCall("clear", <<>>, <<>>)

Count ==
  /\ StoreCall("count", <<>>, <<count(switches_)>>)
  /\ UNCHANGED <<switches_, added>>

GetSwitches ==
  /\ StoreCall("get_switches", <<>>, <<get_switches(switches_)>>)
  /\ UNCHANGED <<switches_, added>>

\* get is called with the index of a record of the store (any other index
\* is undefined)
Get(index) ==
  /\ 0 <= index /\ index < count(switches_)
  /\ StoreCall("get", <<index>>, <<get(switches_, index)>>)
  /\ UNCHANGED <<switches_, added>>

GetAll ==
  /\ StoreCall("get_all", <<>>, <<get_all(switches_)>>)
  /\ UNCHANGED <<switches_, added>>

NextStore ==
  \/ \E info \in SwitchInfos : AddSwitch(info)
  \/ Clear
  \/ Count
  \/ GetSwitches
  \/ \E index \in 0..(MaxSwitches - 1) : Get(index)
  \/ GetAll

\* the SwitchStore from construction on
SpecStore == Init /\ [][NextStore]_vars

(* ------------------------------ claims -------------------------------- *)

\* C1: a fill or draw_absolute_pixel_internal call made while is_ready_ is
\* false performs no bus transaction: no acquisition, no byte, no release.
C1_NotReadyNoBus ==
  (last.op \in {"fill", "draw"} /\ ~last.rdy) => Wire(out) = <<>>

\* a fill call was made before setup and has returned
C1_Witness == last.op = "fill" /\ ~last.rdy /\ ~is_ready_

\* C2: draw_absolute_pixel_internal with a point outside the panel performs
\* no bus transaction and changes no driver state, Ready or not.
C2_OutOfBoundsIgnored ==
  [][\A p \in Points, color \in Colors :
       (OutOfBounds(p[1], p[2]) /\ Draw(p[1], p[2], color))
         => (out' = <<>> /\ UNCHANGED Driver)]_vars

\* a draw call beyond the right edge was made while Ready and has returned
C2_Witness ==
  /\ last.op = "draw" /\ last.rdy
  /\ last.args[1] = 240
  /\ out = <<>>

\* C3: a fill call made while Ready puts on the bus the address window
\* (0, 0, 239, 239), then one bracket with 240 * 240 = 57600 repetitions of
\* (high byte, low byte) of the converted color, and nothing else.
C3_FillBurst ==
  (last.op = "fill" /\ last.rdy)
    => Wire(out) = WindowWire(0, 0, 239, 239)
                     \o BurstBracket(color_to_565_(ArgColor(last.args, 1)),
                                     57600)

\* a fill with a color whose two bytes differ was made while Ready
C3_Witness ==
  /\ last.op = "fill" /\ last.rdy
  /\ last.args = <<18, 52, 86>>
  /\ Len(out) > 0

\* C4: for x1 <= x2 <= 239 and y1 <= y2 <= 239, set_addr_window_ emits
\* exactly 0x2A, x1, x2 (16-bit words), 0x2B, y1, y2 (16-bit words), 0x2C.
C4_AddrWindowOrder ==
  last.op = "set_addr_window_"
    => Wire(out) = WindowWire(last.args[1], last.args[2],
                              last.args[3], last.args[4])

\* set_addr_window_ has run on a window whose four coordinates differ
C4_Witness ==
  /\ last.op = "set_addr_window_"
  /\ last.args = <<0, 1, 239, 239>>
  /\ Len(out) > 0

\* C5: the self-test runs on exactly the 20th update call made while Ready:
\* not on calls 1..19, and on no later call however many follow.  (Update
\* call number calls of this run is update call calls of the driver's life
\* when the run starts at construction, and call 2^32 - 2 + calls otherwise.)
C5_SelfTestOnceOn20th ==
  /\ (last.op = "update" /\ SelfTestIn(out)) => (~late /\ calls = 20)
  /\ tests = IF late \/ calls >= 20 THEN 1 ELSE 0

\* C6: write_command_, write_data_, write_data_16_ and write_color_ write the
\* DC pin to the level of the transfer (low for a command, high for data)
\* before they acquire the bus, and not again before they release it.
C6_SelectBeforeAcquire ==
  last.op \in {"write_command_", "write_data_", "write_data_16_",
               "write_color_"}
    => /\ Len(out) >= 3
       /\ out[1].k = "dc" /\ ~out[1].held
       /\ out[1].v = <<IF last.op = "write_command_" THEN LOW ELSE HIGH>>
       /\ out[2].k = "enable"
       /\ \A i \in 2..Len(out) : out[i].k # "dc"
       /\ out[Len(out)].k = "disable"
       /\ \A i \in 2..(Len(out) - 1) : out[i].k # "disable"

\* write_data_ has run with the DC pin low before the call
C6_Witness ==
  /\ last.op = "write_data_"
  /\ Len(out) > 0 /\ out[1].dc = LOW
  /\ dc_level = HIGH

\* C7: every byte the driver sends as a command opcode is transferred with
\* the DC pin low, every parameter or pixel byte with the DC pin high.
C7_SelectMatchesRole ==
  \A i \in 1..Len(out) :
    out[i].k = "write"
      => /\ out[i].role = "cmd" => out[i].dc = LOW
         /\ out[i].role = "data" => out[i].dc = HIGH

\* C8: bus acquisition and release are paired: the bus is never acquired
\* while held, never released while free, and it is free whenever a call has
\* returned, also when the byte exchange failed during the call.
C8_BusPaired ==
  /\ ~spi_enabled
  /\ \A i \in 1..Len(out) :
       /\ out[i].k = "enable" => ~out[i].held
       /\ out[i].k = "disable" => out[i].held

\* a fill that wrote its burst while the byte exchange failed has returned
C8_Witness ==
  /\ last.op = "fill" /\ last.fault
  /\ \E i \in 1..Len(out) : out[i].k = "write" /\ out[i].err /\ out[i].n > 1
  /\ ~spi_enabled

\* C9: is_ready_ changes only from false to true, only in setup, and within
\* a call it never goes back to false; no later call clears it.
C9_ReadyOnce ==
  [][/\ is_ready_ => is_ready_'
     /\ is_ready_' # is_ready_ => last'.op = "setup"
     /\ \A i \in 1..(Len(out') - 1) : out'[i].rdy => out'[i + 1].rdy]_vars

\* the self-test has just run and the driver is still Ready
C9_Witness ==
  /\ last.op = "update" /\ SelfTestIn(out)
  /\ is_ready_

\* C10: the diagnostics-done flag is false until the self-test runs, true
\* from the moment the self-test has run, and true ever after.
C10_DoneIffTested == gpio_diagnostics_done = (tests >= 1)

\* a < b for two uint32_t values
Less32(a, b) == a.hi < b.hi \/ (a.hi = b.hi /\ a.lo < b.lo)

\* the step is a call of update
UpdateStep == \E resp \in Responses : Update(resp)

\* C11 as stated: every call of update, before or after setup and whatever
\* the component state, increases update_counter_ by exactly one; the
\* counter never decreases and no other call writes it.
C11_TickEveryCall ==
  [][/\ UpdateStep => /\ update_counter_' = Inc32(update_counter_)
                      /\ Less32(update_counter_, update_counter_')
     /\ ~UpdateStep => UNCHANGED update_counter_]_vars

\* C11 (amended): a call of update made while Ready and with the component
\* not failed increases update_counter_ by one modulo 2^32; every other call
\* of update, and every call of setup, fill and draw, leaves it unchanged.
C11_TickWhenPolled ==
  [][/\ UpdateStep
         => update_counter_' = IF Polled THEN Inc32(update_counter_)
                                         ELSE update_counter_
     /\ ~UpdateStep => UNCHANGED update_counter_]_vars

\* update call 2^32 of the driver's life has returned: the counter is 0
C11_Witness ==
  /\ late /\ last.op = "update"
  /\ update_counter_ = U32Zero

\* the driver after construction, as a call finds it
Constructed(backlight) ==
  [is_ready_ |-> FALSE, update_counter_ |-> U32Zero,
   dc_pin_ |-> TRUE, reset_pin_ |-> TRUE, null_call |-> "trap",
   halted |-> FALSE,
   backlight_pin_ |-> backlight, gpio_diagnostics_done |-> FALSE,
   test_delay_counter |-> U32Zero, dc |-> LOW, bl |-> LOW, held |-> FALSE,
   fault |-> FALSE, log |-> <<>>]

\* C12: whatever state the driver is in when setup is called (constructed,
\* or Ready after an earlier setup and any update, fill and draw calls, with
\* the DC pin at either level), setup puts on the bus the stream of bytes,
\* with the DC level of each, that the first setup of a constructed driver
\* puts there.
C12_SetupStreamFixed ==
  last.op = "setup"
    => \A backlight \in BOOLEAN :
         Wire(out) = Wire(setup(Constructed(backlight)).log)

\* setup has run again on a driver that was Ready and had counted updates
C12_Witness ==
  /\ last.op = "setup" /\ last.rdy
  /\ update_counter_ # U32Zero
  /\ Len(out) > 0

\* the event is a write of the reset pin (the driver has no such statement)
IsResetWrite(e) == e.k = "reset"

\* C13: during setup the reset pin is written (asserted), a delay follows
\* (held), the reset pin is written again to the other level (released), and
\* only then does the first byte of the initialization sequence go out; the
\* sleep-out command 0x11 is sent after the release.
C13_ResetBeforeWake ==
  (last.op = "setup" /\ ~halted)
    => \E a \in 1..Len(out) :
         /\ IsResetWrite(out[a])
         /\ \E r \in (a + 2)..Len(out) :
              /\ IsResetWrite(out[r])
              /\ out[a].v # out[r].v
              /\ \E h \in (a + 1)..(r - 1) : out[h].k = "delay"
              /\ \A i \in 1..r : out[i].k # "write"
              /\ \E w \in (r + 1)..Len(out) :
                   out[w].k = "write" /\ out[w].v = <<GC9A01A_SLPOUT>>

\* the bytes a log writes, in order, each as <<role, byte>>
Written(log) ==
  LET IsByte(e) == e.k = "write" /\ e.n = 1 /\ Len(e.v) = 1
      w == SelectSeq(log, IsByte)
  IN [i \in 1..Len(w) |-> <<w[i].role, w[i].v[1]>>]

\* the places of seq that hold a command byte, in order
CmdPlaces(seq) ==
  LET IsCmdAt(i) == seq[i][1] = "cmd"
  IN SelectSeq([i \in 1..Len(seq) |-> i], IsCmdAt)

\* the least place of x in seq, Len(seq) + 1 if there is none
First(seq, x) ==
  IF \E i \in 1..Len(seq) : seq[i] = x
    THEN CHOOSE i \in 1..Len(seq) :
           seq[i] = x /\ \A j \in 1..(i - 1) : seq[j] # x
    ELSE Len(seq) + 1

\* the commands the claim names; every other command is vendor tuning
NamedCommands ==
  {GC9A01A_SWRESET, GC9A01A_SLPOUT, GC9A01A_COLMOD, GC9A01A_MADCTL,
   GC9A01A_INVON, GC9A01A_NORON, GC9A01A_DISPON}

C15_UnboundPinNoSetup ==
  (last.op = "setup" /\ (~dc_pin_ \/ ~reset_pin_))
    => /\ ~is_ready_
       /\ \A i \in 1..Len(out) : out[i].k # "write"

\* a byte exchange of the log failed
FailedIn(log) == \E i \in 1..Len(log) : log[i].err

\* the log holds a pixel burst
BurstIn(log) == \E i \in 1..Len(log) : log[i].k = "write" /\ log[i].n > 1

\* C16: when a byte exchange fails during the initialization sequence,
\* setup fails: the driver is not Ready after it and the test fill has not
\* been sent.
C16_InitFaultFailsSetup ==
  (last.op = "setup" /\ ~halted /\ FailedIn(out))
    => /\ ~is_ready_
       /\ ~BurstIn(out)

\* C17: when a byte exchange fails during a fill or draw call made while
\* Ready, the call writes no further byte after the failed one, the bus is
\* released when the call returns, and the driver is still Ready.
C17_FaultAbandonsCall ==
  (last.op \in {"fill", "draw"} /\ last.rdy)
    => /\ \A i \in 1..Len(out) :
            out[i].err => \A j \in (i + 1)..Len(out) : out[j].k # "write"
       /\ ~spi_enabled
       /\ is_ready_

\* the step is a call of update that emits the status report
ReportStep ==
  /\ UpdateStep
  /\ Polled
  /\ Mod32(update_counter_', REPORT_EVERY) = 0

\* C18: a call of update that emits the status report leaves is_ready_, the
\* diagnostics flag, the bus and the level of the DC pin and of the
\* backlight pin as it found them, whatever the backlight level was.
C18_ReportChangesNothing ==
  [][ReportStep
       => /\ is_ready_' = is_ready_
          /\ gpio_diagnostics_done' = gpio_diagnostics_done
          /\ spi_enabled' = spi_enabled
          /\ dc_level' = dc_level
          /\ bl_level' = bl_level]_vars

\* C19: for every color with 8-bit channels the value color_to_565_ returns
\* is a 16-bit value whose bits 15-11 are floor(r * 31 / 255), whose bits
\* 10-5 are floor(g * 63 / 255) and whose bits 4-0 are floor(b * 31 / 255);
\* no field exceeds its width; and the five colors the specification lists
\* give 0xF800, 0x07E0, 0x001F, 0x0000 and 0xFFFF.
C19_ColorFields ==
  (last.op = "color_to_565_" /\ out # <<>>)
    => LET r == last.args[1]
           g == last.args[2]
           b == last.args[3]
           value == out[1].v[1]
           red == value \div 2048
           green == (value \div 32) % 64
           blue == value % 32
       IN /\ value \in 0..65535
          /\ red = (r * 31) \div 255 /\ red <= 31
          /\ green = (g * 63) \div 255 /\ green <= 63
          /\ blue = (b * 31) \div 255 /\ blue <= 31
          /\ last.args = <<255, 0, 0>> => value = 63488
          /\ last.args = <<0, 255, 0>> => value = 2016
          /\ last.args = <<0, 0, 255>> => value = 31
          /\ last.args = <<0, 0, 0>> => value = 0
          /\ last.args = <<255, 255, 255>> => value = 65535

\* color_to_565_ has returned for a color with all three fields in use
C19_Witness ==
  /\ last.op = "color_to_565_" /\ last.args = <<128, 200, 255>>
  /\ out # <<>> /\ out[1].v = <<32319>>

\* C20: another device transfers bytes only while the driver is outside its
\* brackets.  Another device can use the bus between two calls of the
\* driver and while a call of the driver waits in delay: at neither point
\* does the driver hold the bus, so the bytes of each bracket (a command, a
\* data word, a whole pixel burst) are contiguous on the bus.
C20_BracketsContiguous ==
  /\ [][OtherExchange => ~spi_enabled]_vars
  /\ [](\A i \in 1..Len(out) : out[i].k = "delay" => ~out[i].held)

\* another device has used the bus after the driver's self-test, while the
\* driver is Ready
C20_Witness ==
  /\ last.op = "other_device"
  /\ is_ready_ /\ tests >= 1
  /\ ~spi_enabled

\* C21: a git update script executes git commit and git push only with
\* changes in the working copy: every git commit and every git push of a
\* run follows a git add that found changes in the working copy, so that a
\* run that comes to its commit step without changes executes neither.
C21_CommitOnlyChanges ==
  last.op \in Scripts =>
    \A i \in 1..Len(out) :
      out[i].k \in {"git commit", "git push"} =>
        \E j \in 1..i : out[j].k = "git add" /\ out[j].changes

\* C22: after the local cleanup step of the backup script at most 30 .xml
\* files are left in the backup directory, whatever their number was
\* before, and the files left are the most recent ones: each is newer than
\* every file the step removed.
C22_KeepsLast30 ==
  last.op \in BackupScripts =>
    /\ Cardinality(backup_dir) <= 30
    /\ \A f \in backup_dir : \A i \in 1..Len(out) : f < out[i].v

\* how often the log acquires the bus
Acquisitions(log) == Cardinality({i \in 1..Len(log) : log[i].k = "enable"})

\* how many bytes the log writes to the bus
RECURSIVE BytesWritten(_)
BytesWritten(log) ==
  IF log = <<>> THEN 0
  ELSE (IF Head(log).k = "write" THEN Head(log).n * Len(Head(log).v) ELSE 0)
         + BytesWritten(Tail(log))

\* C23: each protocol primitive is one acquire-transfer-release bracket.
\* write_command_ and write_data_ transfer their byte, write_data_16_ the
\* high byte and then the low byte of its word, and write_color_(color,
\* count) count times (high byte, low byte) in one bracket: one acquisition
\* and 2 * count bytes, for count = 0 too.
C23_OneBracketEach ==
  /\ last.op = "write_command_" => Wire(out) = CmdBracket(last.args[1])
  /\ last.op = "write_data_"
       => Wire(out) = Bracket(HIGH, <<<<"write", <<last.args[1]>>, 1, HIGH>>>>)
  /\ last.op = "write_data_16_" => Wire(out) = WordBracket(last.args[1])
  /\ last.op = "write_color_"
       => /\ Wire(out) = IF last.args[2] = 0
                           THEN Bracket(HIGH, <<>>)
                           ELSE BurstBracket(last.args[1], last.args[2])
          /\ Acquisitions(out) = 1
          /\ BytesWritten(out) = 2 * last.args[2]

\* write_color_ has sent the largest burst, of a color whose bytes differ
C23_Witness ==
  /\ last.op = "write_color_"
  /\ last.args = <<258, MaxCount>>
  /\ BytesWritten(out) = 2 * MaxCount

\* C24: a draw_absolute_pixel_internal(x, y, color) call made while Ready
\* with 0 <= x < 240 and 0 <= y < 240 puts on the bus the address window
\* (x, y, x, y), then the one data word color_to_565_(color), high byte
\* first, and nothing else.
C24_DrawOnePixel ==
  (last.op = "draw" /\ last.rdy /\ ~OutOfBounds(last.args[1], last.args[2]))
    => Wire(out) = WindowWire(last.args[1], last.args[2],
                              last.args[1], last.args[2])
                     \o WordBracket(color_to_565_(ArgColor(last.args, 3)))

\* the pixel (5, 7) has been drawn while Ready in a color whose bytes differ
C24_Witness ==
  /\ last.op = "draw" /\ last.rdy
  /\ last.args = <<5, 7, 18, 52, 86>>
  /\ Len(out) > 0

\* The brackets of a wire image that carry pixel data, each by the place of
\* its acquisition: the bursts (the two-byte pattern that only write_color_
\* writes) and, in a draw call, the last bracket (the color word).
PixelBrackets(w) ==
  {e \in 1..(Len(w) - 2) :
     /\ w[e][1] = "enable"
     /\ \/ w[e + 1][1] = "write" /\ Len(w[e + 1][2]) = 2
        \/ last.op = "draw" /\ e = Len(w) - 3}

\* C25: in every call of setup, update, draw and fill, the bracket of each
\* pixel-data transfer (the burst of a fill, the color word of a pixel
\* write) comes on the bus right after the bracket of a memory-write
\* command 0x2C, and each memory-write command is followed at once by
\* pixel data: no other transaction of the driver, the self-test included,
\* lies between the two.
C25_PixelsFollowMemoryWrite ==
  LET w == Wire(out)
  IN /\ \A e \in PixelBrackets(w) :
          e > 3 /\ SubSeq(w, e - 3, e - 1) = CmdBracket(GC9A01A_RAMWR)
     /\ \A i \in 1..Len(w) :
          w[i] = <<"write", <<GC9A01A_RAMWR>>, 1, LOW>>
            => (i + 2) \in PixelBrackets(w)

\* a call made while Ready has sent pixel data
C25_Witness ==
  /\ last.op \in {"fill", "draw"} /\ last.rdy
  /\ PixelBrackets(Wire(out)) # {}

\* the 16-bit word of the word bracket acquired at place e of a wire image
WordAt(w, e) == w[e + 1][2][1] * 256 + w[e + 2][2][1]

\* The address windows of a wire image, <<x1, y1, x2, y2>> each: the words
\* that follow a column-address command and the row-address command after
\* them.
Windows(w) ==
  {<<WordAt(w, i + 2), WordAt(w, i + 13), WordAt(w, i + 6),
     WordAt(w, i + 17)>> :
     i \in {j \in 1..(Len(w) - 19) :
              w[j] = <<"write", <<GC9A01A_CASET>>, 1, LOW>>}}

\* C26: every address window that fill or draw_absolute_pixel_internal puts
\* on the bus, whatever int arguments the call got, has
\* 0 <= x1 <= x2 <= 239 and 0 <= y1 <= y2 <= 239; a coordinate beyond the
\* panel is never sent, neither as it is nor cut to 16 bits.
C26_WindowInPanel ==
  /\ \A win \in Windows(Wire(out)) :
       /\ 0 <= win[1] /\ win[1] <= win[3] /\ win[3] <= 239
       /\ 0 <= win[2] /\ win[2] <= win[4] /\ win[4] <= 239
  /\ (last.op = "draw" /\ OutOfBounds(last.args[1], last.args[2]))
       => Windows(Wire(out)) = {}

\* a draw call has sent the window of the last pixel of the panel
C26_Witness ==
  /\ last.op = "draw" /\ last.rdy
  /\ Windows(Wire(out)) = {<<239, 239, 239, 239>>}

\* C27: setup sends the whole initialization sequence, which ends with
\* display-on (0x29), then marks the driver Ready, then paints the test
\* pattern: the window of the full panel and one burst of 57600 times
\* 0xF800 (red), the last bus traffic of setup.  The driver is not Ready
\* during any transfer of the initialization sequence of its first setup
\* and Ready during every transfer of the fill.
C27_SetupOrder ==
  last.op = "setup" =>
    LET bus == SelectSeq(out, IsBus)
        init == Wire(init_display_(Constructed(FALSE)).log)
        n == Len(init)
    IN /\ SubSeq(init, n - 2, n) = CmdBracket(GC9A01A_DISPON)
       /\ Wire(out) = init \o WindowWire(0, 0, 239, 239)
                         \o BurstBracket(63488, 57600)
       /\ \A j \in 1..Len(bus) : j > n => bus[j].rdy
       /\ ~last.rdy => \A j \in 1..n : ~bus[j].rdy
       /\ is_ready_

\* the first setup of a driver has returned
C27_Witness ==
  /\ last.op = "setup" /\ ~last.rdy
  /\ is_ready_
  /\ Len(out) > 0

\* the pixel bursts of a log: the writes of write_color_
Bursts(log) == {i \in 1..Len(log) : log[i].k = "write" /\ Len(log[i].v) = 2}

\* C28: an update call puts nothing on the bus but the bracket of the
\* self-test (acquire, write 0x9F, read three bytes, release): no command
\* of an address window or of the initialization sequence and no pixel
\* data.  With setup called once and update called any number of times, the
\* one pixel burst ever sent is therefore the test fill of setup.
C28_UpdateOnlySelfTest ==
  /\ last.op = "update" =>
       LET w == Wire(out)
       IN \/ w = <<>>
          \/ /\ Len(w) = 4
             /\ w[1][1] = "enable"
             /\ w[2][1] = "write" /\ w[2][2] = <<TEST_CMD>> /\ w[2][3] = 1
             /\ w[3][1] = "read" /\ w[3][3] = TEST_READ_LEN
             /\ w[4][1] = "disable"
  /\ last.op = "setup" => Cardinality(Bursts(out)) = 1

\* the update call that ran the self-test has returned
C28_Witness ==
  /\ last.op = "update"
  /\ Len(Wire(out)) = 4
  /\ calls = 20

\* C29: an update call that returns early, because the driver is not Ready
\* or because the component state is the failed state 0x03, does nothing:
\* both counters, the flags and the pins are as before, the bus is not
\* touched and no report is made (the log of the call is empty).
C29_EarlyReturnNothing ==
  [][(UpdateStep /\ ~Polled) => (out' = <<>> /\ UNCHANGED Driver)]_vars

\* an update call made before setup has returned; the driver has a
\* backlight pin, which a report would read
C29_Witness ==
  /\ last.op = "update" /\ ~last.rdy
  /\ backlight_pin_
  /\ out = <<>>

\* the call whose log is log made the status report (with a backlight pin
\* the report reads the pin)
ReportIn(log) == \E i \in 1..Len(log) : log[i].k = "bl_read"

\* the ordinal, modulo 20, of the last update call that ran while Ready,
\* among all such calls of the driver's life
Ordinal20(n) ==
  IF late THEN (Mod32(LateCount, REPORT_EVERY) + n) % REPORT_EVERY
  ELSE n % REPORT_EVERY

\* C30: the update calls that make the status report are exactly those
\* whose ordinal, among the update calls that run while Ready, is a
\* multiple of 20, from construction on and also beyond update call 2^32,
\* where update_counter_ wraps.
C30_ReportEvery20th ==
  [][(UpdateStep /\ Polled /\ backlight_pin_)
       => (ReportIn(out') <=> Ordinal20(calls') = 0)]_vars

\* C31: with two drivers that are both Ready, the self-test of each runs on
\* that driver's own 20th update call, however many update calls the other
\* driver has had and in whatever interleaving: a driver has run its
\* self-test once when it has had 20 update calls and not before.
C31_SelfTestPerInstance ==
  (is_ready_ /\ second.is_ready_) =>
    /\ tests = IF calls >= 20 THEN 1 ELSE 0
    /\ second.tests = IF second.calls >= 20 THEN 1 ELSE 0

\* C32: for one driver, test_delay_counter equals update_counter_ after
\* every call: the two advance on the same update calls.  The self-test
\* and the first status report are therefore made by the same update call,
\* the 20th, and the self-test comes first in it.
C32_CountersAgree ==
  /\ test_delay_counter = update_counter_
  /\ (last.op = "update" /\ SelfTestIn(out) /\ backlight_pin_)
       => \E i \in 1..Len(out) :
            /\ out[i].k = "read"
            /\ \E j \in (i + 1)..Len(out) : out[j].k = "bl_read"
            /\ \A j \in 1..i : out[j].k # "bl_read"
  /\ (last.op = "update" /\ ~late /\ calls < 20)
       => \A i \in 1..Len(out) : out[i].k # "bl_read"

\* the 20th update call of a driver with a backlight pin has returned
C32_Witness ==
  /\ last.op = "update" /\ SelfTestIn(out) /\ backlight_pin_
  /\ ~late /\ calls = 20
  /\ update_counter_ = U32(0, 20)

\* C33: after any sequence of add_switch and clear calls, count() is the
\* number of add_switch calls since the last clear (or since construction),
\* get(i) for 0 <= i < count() is the record handed to the (i + 1)-th of
\* them, and get_switches() and get_all() are those records in the order of
\* the calls; the calls return these values.
C33_StoreKeepsOrder ==
  /\ count(switches_) = Len(added)
  /\ \A i \in 0..(Len(added) - 1) : get(switches_, i) = added[i + 1]
  /\ get_switches(switches_) = added
  /\ get_all(switches_) = added
  /\ last.op = "count" => out = <<Len(added)>>
  /\ last.op = "get" => out = <<added[last.args[1] + 1]>>
  /\ last.op \in {"get_switches", "get_all"} => out = <<added>>

\* get(1) has returned the second of three records added after a clear,
\* which differs from the first
C33_Witness ==
  /\ last.op = "get" /\ last.args = <<1>>
  /\ Len(added) = 3
  /\ added[1] # added[2]
  /\ out = <<added[2]>>

\* the invocations the firewall lines of a list call for, in list order
Expected(list) ==
  LET fw == SelectSeq(list, LAMBDA line : line.k = "entry")
  IN [i \in 1..Len(fw) |-> pfsense_backup(fw[i].ip, fw[i].name, fw[i].pass)]

\* C34: a run of the backup loop invokes pfsense-backup.sh exactly once for
\* every line of the firewall list that is neither empty nor a comment,
\* with that line's IP, name and password, in list order, and not at all
\* for a comment line or an empty line, whatever lines precede it.
C34_OneBackupPerFirewall ==
  last.op \in ListScripts => out = Expected(last.args[1])

\* C35: a git-sync script runs no command after one that has failed; in
\* particular git push does not run after git add or git commit has failed.
C35_LinearEarlyExit ==
  last.op \in SyncScripts =>
    \A i \in 1..Len(out) : \A j \in (i + 1)..Len(out) : out[i].ok

\* C36: a run of a git update script on a working copy that differs from
\* the last commit - by a modified tracked file, a staged change or an
\* untracked file, alone or together - executes git add, then a git commit
\* that succeeds, then git push, which succeeds when the remote can be
\* reached; the script does not end with nothing committed.
C36_AnyChangeCommitted ==
  (last.op \in Scripts /\ last.args[1]) =>
    /\ Len(out) = 3
    /\ out[1].k = "git add" /\ out[1].ok
    /\ out[2].k = "git commit" /\ out[2].ok
    /\ out[3].k = "git push" /\ (last.args[4] => out[3].ok)

=============================================================================
